---- MODULE Spec2Model ----
(***************************************************************************)
(* gcsfast "download": slicing of an object into byte-range jobs, the      *)
(* two-level fan-out of the jobs (worker processes, then threads), and the *)
(* writes of the sub-range tasks into the one output file.                 *)
(*                                                                         *)
(* Sizes handled by calculate_slice_size are counted in MiB (262144 * 4    *)
(* bytes, the unit constants.py writes its defaults in); the operators     *)
(* themselves are unit-free integer arithmetic.                            *)
(***************************************************************************)
EXTENDS Integers, Sequences, FiniteSets, TLC

VARIABLES
    call,                 \* the function called and its arguments
    returned,             \* pure functions: whether the call has returned
    ret,                  \* pure functions: the value returned
    blob,                 \* the object's metadata (blob.size)
    start_method,         \* how the process pool starts its workers
    TRANSFER_CHUNK_SIZE,  \* module global, a list (download.py 37)
    PROCESS_COUNT,        \* module global, a list (download.py 35)
    THREAD_COUNT,         \* module global, a list (download.py 36)
    pc,                   \* download_command: "start", "fanout", "unwind", "done"
    outcome,              \* how the command ended: "none", "success", "exit1", "raised"
    workers,              \* size of the process pool (line 79)
    jobs,                 \* the list calculate_jobs returned (line 95)
    jobState,             \* per job: state of its future in the process pool
    ranges,               \* per job: the list subdivide_range returned (line 136)
    chunk_size,           \* per job: blob.chunk_size of the worker's blob (line 121)
    task,                 \* per job, per range: state and file position of _download_range
    file,                 \* the output file: its bytes, offset i at index i + 1
    failures              \* history: <<j, t>> for a task whose fetch failed, <<j, 0>>
                          \* for a job that failed before it had tasks

globals == <<TRANSFER_CHUNK_SIZE, PROCESS_COUNT, THREAD_COUNT>>
harness == <<call, returned, ret>>
download == <<blob, start_method, pc, outcome, workers, jobs, jobState, ranges,
              chunk_size, task, file, failures>>
vars == <<harness, globals, download>>

(***************************************************************************)
(* Bounds of the model.                                                    *)
(***************************************************************************)
MaxRangeEnd == 100        \* subdivide_range: largest range_end tried
MaxSubdivisions == 5      \* subdivide_range: largest subdivisions tried
MaxJobsBlobSize == 130    \* calculate_jobs: largest blob_size tried
MaxJobsSliceSize == 66    \* calculate_jobs: largest slice_size tried
MaxJobCount == 40         \* calculate_jobs: most loop iterations unfolded
MaxSliceBlobSize == 1100  \* calculate_slice_size: largest blob_size tried (MiB)
MaxSliceJobs == 2         \* calculate_slice_size: largest worker count tried
MaxOverride == 3          \* calculate_slice_size: largest -n / -m override tried
MaxMultiplier == 2        \* calculate_slice_size: largest multiplier tried
MaxObjectSize == 3        \* download: largest object, in bytes
MaxSliceArg == 1          \* download: largest -s slice size tried
MaxProcessesArg == 1      \* download: largest -p process count tried
MaxThreadsArg == 2        \* download: largest -t thread count tried
MaxTransferChunkArg == 2  \* download: largest -c transfer chunk size tried
CpuCount == 2             \* download: what multiprocessing.cpu_count() returns

(***************************************************************************)
(* Program constants (constants.py), in MiB.                               *)
(***************************************************************************)
DEFAULT_MINIMUM_DOWNLOAD_SLICE_SIZE == 64
DEFAULT_MAXIMUM_DOWNLOAD_SLICE_SIZE == 1024

(***************************************************************************)
(* Python values.  None is the empty tuple, an int v the 1-tuple <<v>>,    *)
(* for the optional arguments of the command line (click default=None).    *)
(***************************************************************************)
None == <<>>
Some(v) == <<v>>
Optional(S) == {None} \cup {Some(v) : v \in S}

\* Python truthiness of an optional int: None and 0 are both false.
Truthy(o) == o # None /\ o[1] # 0

\* min() of two ints
Min(a, b) == IF a < b THEN a ELSE b

\* int(a / b) for non-negative a and positive b: true division, then
\* truncation ("truncate the float"); exact below 2^53.
IntDiv(a, b) == a \div b

(***************************************************************************)
(* subdivide_range (download.py 152-162)                                   *)
(***************************************************************************)
\* line 161, mutated: the next sub-range skips a byte
SubrangeNextStart_gap(finish) == finish + 2

\* line 161: start = finish + 1
SubrangeNextStart(finish) == finish + 1

\* line 154, mutated: ceiling instead of truncation
SubrangeSize_ceil(range_size, subdivisions) ==
    (range_size + subdivisions - 1) \div subdivisions

\* line 154, mutated: the range is divided by one subdivision too many
SubrangeSize_divisor(range_size, subdivisions) ==
    IntDiv(range_size, subdivisions + 1)

\* line 154: subrange_size = int(range_size / subdivisions)
SubrangeSize(range_size, subdivisions) == IntDiv(range_size, subdivisions)

\* lines 158-161: the while loop, one iteration per unfolding
RECURSIVE subdivide_loop(_, _, _, _, _)
subdivide_loop(range_end, subrange_size, start, finish, ranges_) ==
    IF finish < range_end
    THEN LET f == start + subrange_size
         IN  subdivide_loop(range_end, subrange_size, SubrangeNextStart(f), f,
                            Append(ranges_, <<start, Min(f, range_end)>>))
    ELSE ranges_

subdivide_range(range_start, range_end, subdivisions) ==
    LET range_size == range_end - range_start
        subrange_size == SubrangeSize(range_size, subdivisions)
    IN  subdivide_loop(range_end, subrange_size, range_start, -1, <<>>)

(***************************************************************************)
(* calculate_jobs (download.py 165-178)                                    *)
(***************************************************************************)
\* lines 41-54: DownloadJob(url_tokens, start, end, slice_number)
DownloadJob(url_tokens, start, end, slice_number) ==
    [url_tokens |-> url_tokens, start |-> start, end |-> end,
     slice_number |-> slice_number]

\* line 177, mutated: the next job skips a byte
JobNextStart_gap(finish) == finish + 2

\* line 177, mutated: the next job starts on the previous job's last byte
JobNextStart_overlap(finish) == finish

\* line 177: start = finish + 1
JobNextStart(finish) == finish + 1

\* line 171, mutated: while start < blob_size (finish + 1 is the next start)
JobsLoopContinues_start(finish, blob_size) == finish + 1 < blob_size

\* line 171: while finish < blob_size
JobsLoopContinues(finish, blob_size) == finish < blob_size

\* lines 171-177: the while loop, one iteration per unfolding
RECURSIVE calculate_jobs_loop(_, _, _, _, _, _)
calculate_jobs_loop(url_tokens, slice_size, blob_size, start, finish, jobs_) ==
    IF JobsLoopContinues(finish, blob_size)
    THEN LET f == start + slice_size
             \* the locals after the iteration's body has run, bound as
             \* values so that each iteration evaluates them once
             body == [start  |-> JobNextStart(f), finish |-> f,
                      jobs   |-> Append(jobs_,
                                   DownloadJob(url_tokens, start,
                                               Min(f, blob_size),
                                               Len(jobs_) + 1))]
         IN  CHOOSE result \in
                 { calculate_jobs_loop(url_tokens, slice_size, blob_size,
                                       locals.start, locals.finish, locals.jobs)
                     : locals \in {body} } : TRUE
    ELSE jobs_

calculate_jobs(url_tokens, slice_size, blob_size) ==
    calculate_jobs_loop(url_tokens, slice_size, blob_size, 0, -1, <<>>)

(***************************************************************************)
(* calculate_slice_size (download.py 181-202)                              *)
(***************************************************************************)
\* line 183
min_slice_size(min_override, multiplier) ==
    IF Truthy(min_override) THEN min_override[1]
    ELSE DEFAULT_MINIMUM_DOWNLOAD_SLICE_SIZE * multiplier

\* line 184
max_slice_size(max_override, multiplier) ==
    IF Truthy(max_override) THEN max_override[1]
    ELSE DEFAULT_MAXIMUM_DOWNLOAD_SLICE_SIZE * multiplier

\* lines 187-202, mutated: the upper bound is never applied
SliceSizeWithin_nomax(blob_size, jobs_, lo, hi) ==
    IF blob_size < lo THEN blob_size
    ELSE LET evenly_among_workers == IntDiv(blob_size, jobs_)
         IN  IF evenly_among_workers < lo THEN lo
             ELSE evenly_among_workers

\* lines 187-202
SliceSizeWithin(blob_size, jobs_, lo, hi) ==
    IF blob_size < lo THEN blob_size
    ELSE LET evenly_among_workers == IntDiv(blob_size, jobs_)
         IN  IF evenly_among_workers < lo THEN lo
             ELSE IF evenly_among_workers > hi THEN hi
             ELSE evenly_among_workers

calculate_slice_size(blob_size, jobs_, min_override, max_override, multiplier) ==
    SliceSizeWithin(blob_size, jobs_,
                    min_slice_size(min_override, multiplier),
                    max_slice_size(max_override, multiplier))

(***************************************************************************)
(* The download: download_command (download.py 60-111), run_download_job   *)
(* (114-149) and _download_range (127-132).                                *)
(***************************************************************************)
\* the object's byte at an offset, as blob.download_to_file delivers it
\* (line 131); never 0, the byte a hole of the file reads as
ObjectByte(offset) == offset + 1

\* multiprocessing.cpu_count() (line 79)
cpu_count == CpuCount

\* the file after a write of the bytes data at position pos: a write past
\* the end of the file leaves a hole of zero bytes
FileWrite(f, pos, data) ==
    LET n == IF Len(f) > pos + Len(data) THEN Len(f) ELSE pos + Len(data)
    IN  [i \in 1 .. n |->
            IF i > pos /\ i <= pos + Len(data) THEN data[i - pos]
            ELSE IF i <= Len(f) THEN f[i]
            ELSE 0]

\* line 129, mutated: open(output_filename, "r+b") keeps the file's bytes
FileOpenWb_keep(f) == f

\* line 129: open(output_filename, "wb") creates the file or truncates it
FileOpenWb(f) == <<>>

JobIds == 1 .. Len(jobs)
TaskIds(j) == 1 .. Len(task[j])

\* lines 99-111, mutated: the pool's shutdown does not wait for a job that a
\* worker is still running
JobTerminal_nowait(j) == jobState[j] # "pending"

\* lines 99-111: the with block's exit waits for every job that was not
\* cancelled
JobTerminal(j) == jobState[j] \in {"succeeded", "failed", "raised", "cancelled"}
TaskTerminal(j, t) == task[j][t].state \in {"done", "raised", "cancelled"}

\* the last offset a ranged fetch of [s, e] delivers: the store clamps the
\* end of the range to the object's last byte
LastFetched(e) == Min(e, blob.size - 1)

\* lines 64-103: set the tunables, size the slices, build the jobs and hand
\* them all to the process pool (executor.map submits every job at once).
\* Assigning cell 0 of an empty list raises IndexError.
download_command ==
    /\ pc = "start"
    /\ IF TRANSFER_CHUNK_SIZE = <<>>
       THEN /\ pc' = "done"
            /\ outcome' = "raised"
            /\ UNCHANGED <<globals, workers, jobs, jobState, ranges, chunk_size, task>>
       ELSE IF PROCESS_COUNT = <<>>
       THEN /\ TRANSFER_CHUNK_SIZE' = [TRANSFER_CHUNK_SIZE EXCEPT ![1] = call.transfer_chunk]
            /\ pc' = "done"
            /\ outcome' = "raised"
            /\ UNCHANGED <<PROCESS_COUNT, THREAD_COUNT, workers, jobs, jobState,
                           ranges, chunk_size, task>>
       ELSE IF THREAD_COUNT = <<>>
       THEN /\ TRANSFER_CHUNK_SIZE' = [TRANSFER_CHUNK_SIZE EXCEPT ![1] = call.transfer_chunk]
            /\ PROCESS_COUNT' = [PROCESS_COUNT EXCEPT ![1] = call.processes]
            /\ pc' = "done"
            /\ outcome' = "raised"
            /\ UNCHANGED <<THREAD_COUNT, workers, jobs, jobState, ranges,
                           chunk_size, task>>
       ELSE LET w == IF Truthy(call.processes) THEN call.processes[1] ELSE cpu_count
                slice_size == IF Truthy(call.slice_size) THEN call.slice_size[1]
                              ELSE calculate_slice_size(blob.size, w, call.min_slice,
                                                        call.max_slice, call.threads)
                js == calculate_jobs(call.object_path, slice_size, blob.size)
            IN  /\ TRANSFER_CHUNK_SIZE' = [TRANSFER_CHUNK_SIZE EXCEPT ![1] = call.transfer_chunk]
                /\ PROCESS_COUNT' = [PROCESS_COUNT EXCEPT ![1] = call.processes]
                /\ THREAD_COUNT' = [THREAD_COUNT EXCEPT ![1] = call.threads]
                /\ workers' = w
                /\ jobs' = js
                /\ jobState' = [j \in 1 .. Len(js) |-> "pending"]
                /\ ranges' = [j \in 1 .. Len(js) |-> <<>>]
                /\ chunk_size' = [j \in 1 .. Len(js) |-> None]
                /\ task' = [j \in 1 .. Len(js) |-> <<>>]
                /\ pc' = "fanout"
                /\ outcome' = "none"
    /\ UNCHANGED <<harness, blob, start_method, file, failures>>

\* lines 114-140: a worker process takes the oldest pending job, reads the
\* tunables, subdivides the job's range and hands every sub-range to its
\* thread pool.  A forked worker inherits the parent's lists; a spawned one
\* imports the module afresh, its lists are empty (lines 35-37) and line 121
\* raises IndexError.
run_download_job(j) ==
    /\ pc \in {"fanout", "unwind"}
    /\ jobState[j] = "pending"
    /\ \A i \in 1 .. j - 1 : jobState[i] # "pending"
    /\ Cardinality({i \in JobIds : jobState[i] \in {"running", "unwinding"}}) < workers
    /\ IF start_method = "spawn"
       THEN /\ jobState' = [jobState EXCEPT ![j] = "raised"]
            /\ failures' = failures \cup {<<j, 0>>}
            /\ UNCHANGED <<ranges, chunk_size, task>>
       ELSE LET rs == subdivide_range(jobs[j].start, jobs[j].end, THREAD_COUNT[1])
            IN  /\ jobState' = [jobState EXCEPT ![j] = "running"]
                /\ UNCHANGED failures
                /\ chunk_size' = [chunk_size EXCEPT ![j] = TRANSFER_CHUNK_SIZE[1]]
                /\ ranges' = [ranges EXCEPT ![j] = rs]
                /\ task' = [task EXCEPT ![j] =
                               [t \in 1 .. Len(rs) |-> [state |-> "pending", pos |-> 0]]]
    /\ UNCHANGED <<harness, globals, blob, start_method, pc, outcome, workers, jobs, file>>

\* line 129: a thread of the job's pool starts the task, which opens the file
TaskOpen(j, t) ==
    /\ jobState[j] \in {"running", "unwinding"}
    /\ task[j][t].state = "pending"
    /\ task' = [task EXCEPT ![j][t] = [state |-> "opened", pos |-> 0]]
    /\ file' = FileOpenWb(file)
    /\ UNCHANGED <<failures, harness, globals, blob, start_method, pc, outcome, workers, jobs,
                   jobState, ranges, chunk_size>>

\* line 130: output.seek(s)
TaskSeek(j, t) ==
    /\ task[j][t].state = "opened"
    /\ task' = [task EXCEPT ![j][t] = [state |-> "positioned", pos |-> ranges[j][t][1]]]
    /\ UNCHANGED <<failures, harness, globals, blob, start_method, pc, outcome, workers, jobs,
                   jobState, ranges, chunk_size, file>>

\* line 131: blob.download_to_file fetches the next chunk_size bytes of the
\* range and writes them at the file position
TaskDownload(j, t) ==
    LET pos == task[j][t].pos
        last == LastFetched(ranges[j][t][2])
    IN  /\ task[j][t].state = "positioned"
        /\ pos <= last
        /\ LET n == Min(chunk_size[j][1], last - pos + 1)
               data == [i \in 1 .. n |-> ObjectByte(pos + i - 1)]
           IN  /\ file' = FileWrite(file, pos, data)
               /\ task' = [task EXCEPT ![j][t].pos = pos + n]
        /\ UNCHANGED <<failures, harness, globals, blob, start_method, pc, outcome, workers,
                       jobs, jobState, ranges, chunk_size>>

\* lines 129-131, mutated: _download_range catches the exception and
\* returns True
DownloadRangeOnError_swallowed == "done"

\* lines 129-131: nothing in _download_range catches an exception of
\* download_to_file; the with block closes the file and it propagates
DownloadRangeOnError == "raised"

\* line 131 raises: the transport fails during the fetch, or the range
\* starts past the object's last byte and the store cannot satisfy it
TaskRaise(j, t) ==
    /\ task[j][t].state = "positioned"
    /\ \/ task[j][t].pos <= LastFetched(ranges[j][t][2])
       \/ ranges[j][t][1] >= blob.size
    /\ task' = [task EXCEPT ![j][t].state = DownloadRangeOnError]
    /\ failures' = failures \cup {<<j, t>>}
    /\ UNCHANGED <<harness, globals, blob, start_method, pc, outcome, workers, jobs,
                   jobState, ranges, chunk_size, file>>

\* lines 131-132: the fetch is complete, the file is closed, return True
TaskReturn(j, t) ==
    /\ task[j][t].state = "positioned"
    /\ task[j][t].pos > LastFetched(ranges[j][t][2])
    /\ ranges[j][t][1] < blob.size
    /\ task' = [task EXCEPT ![j][t].state = "done"]
    /\ UNCHANGED <<failures, harness, globals, blob, start_method, pc, outcome, workers, jobs,
                   jobState, ranges, chunk_size, file>>

\* line 132: the value _download_range returns
DownloadRangeResult == TRUE

\* line 140: executor.map yields the tasks' results in order; the first task
\* that raised, once every task before it has returned, raises out of all().
\* The iterator then cancels the futures after it: one cancels unless a
\* thread has already taken it.
JobObservesFailure(j) ==
    /\ jobState[j] = "running"
    /\ \E t \in TaskIds(j) :
          /\ task[j][t].state = "raised"
          /\ \A u \in 1 .. t - 1 : task[j][u].state = "done"
          /\ \E C \in SUBSET {u \in TaskIds(j) : u > t /\ task[j][u].state = "pending"} :
                task' = [task EXCEPT ![j] =
                            [u \in TaskIds(j) |->
                                IF u \in C THEN [task[j][u] EXCEPT !.state = "cancelled"]
                                ELSE task[j][u]]]
    /\ jobState' = [jobState EXCEPT ![j] = "unwinding"]
    /\ UNCHANGED <<failures, harness, globals, blob, start_method, pc, outcome, workers, jobs,
                   ranges, chunk_size, file>>

\* lines 99-103, mutated: the pool hands a job that raised to a worker again
JobOnError_retry == "pending"

\* lines 99-103: the job's future keeps the exception, no code submits the
\* job a second time
JobOnError == "raised"

\* lines 135-141: the exception leaves the with block once the thread pool
\* has shut down, which waits for every task that was not cancelled
JobRaises(j) ==
    /\ jobState[j] = "unwinding"
    /\ \A t \in TaskIds(j) : TaskTerminal(j, t)
    /\ jobState' = [jobState EXCEPT ![j] = JobOnError]
    /\ UNCHANGED <<failures, harness, globals, blob, start_method, pc, outcome, workers, jobs,
                   ranges, chunk_size, task, file>>

\* lines 140-149: every task has returned; False if a result is false
JobReturns(j) ==
    /\ jobState[j] = "running"
    /\ \A t \in TaskIds(j) : task[j][t].state = "done"
    /\ jobState' = [jobState EXCEPT ![j] =
                       IF \A t \in TaskIds(j) : DownloadRangeResult
                       THEN "succeeded" ELSE "failed"]
    /\ UNCHANGED <<failures, harness, globals, blob, start_method, pc, outcome, workers, jobs,
                   ranges, chunk_size, task, file>>

\* line 103: all(executor.map(run_download_job, jobs)) is true
AllJobsTrue == \A j \in JobIds : jobState[j] = "succeeded"

\* line 103: executor.map yields the jobs' results in order; the first job
\* that raised, once every job before it has returned True, raises out of
\* all().  The iterator then cancels the futures after it: one cancels unless
\* the pool has already queued it for a worker.
CommandObservesFailure ==
    /\ pc = "fanout"
    /\ \E j \in JobIds :
          /\ jobState[j] = "raised"
          /\ \A i \in 1 .. j - 1 : jobState[i] = "succeeded"
          /\ \E C \in SUBSET {i \in JobIds : i > j /\ jobState[i] = "pending"} :
                jobState' = [i \in JobIds |->
                                IF i \in C THEN "cancelled" ELSE jobState[i]]
    /\ pc' = "unwind"
    /\ UNCHANGED <<failures, harness, globals, blob, start_method, outcome, workers, jobs,
                   ranges, chunk_size, task, file>>

\* lines 99-111: the exception leaves the with block once the process pool
\* has shut down, which waits for every job that was not cancelled; nothing
\* catches it and the interpreter exits with status 1
CommandRaises ==
    /\ pc = "unwind"
    /\ \A j \in JobIds : JobTerminal(j)
    /\ pc' = "done"
    /\ outcome' = "raised"
    /\ UNCHANGED <<failures, harness, globals, blob, start_method, workers, jobs, jobState,
                   ranges, chunk_size, task, file>>

\* lines 103-111: every job has returned; the overall message if all() is
\* true, else "Something went wrong!" and exit(1)
CommandReturns ==
    /\ pc = "fanout"
    /\ \A j \in JobIds : jobState[j] \in {"succeeded", "failed"}
    /\ pc' = "done"
    /\ outcome' = IF AllJobsTrue THEN "success" ELSE "exit1"
    /\ UNCHANGED <<failures, harness, globals, blob, start_method, workers, jobs, jobState,
                   ranges, chunk_size, task, file>>

\* the state before download_command is called: the command line's
\* arguments, the object, and the module's lists, empty as lines 35-37 make
\* them or holding one cell each, given by the program that imported the module
Init ==
    /\ call \in [fn : {"download_command"},
                 processes : Optional(1 .. MaxProcessesArg),
                 threads : 1 .. MaxThreadsArg,
                 min_slice : {None},
                 max_slice : {None},
                 slice_size : Optional(1 .. MaxSliceArg),
                 transfer_chunk : {Some(c) : c \in 1 .. MaxTransferChunkArg},
                 object_path : {"gs"}]
    /\ returned = FALSE
    /\ ret = <<>>
    /\ blob \in [size : 1 .. MaxObjectSize]
    /\ start_method \in {"fork", "spawn"}
    /\ \E cell \in {<<>>, <<None>>} :
          /\ TRANSFER_CHUNK_SIZE = cell
          /\ PROCESS_COUNT = cell
          /\ THREAD_COUNT = cell
    /\ pc = "start"
    /\ outcome = "none"
    /\ workers = 0
    /\ jobs = <<>>
    /\ jobState = <<>>
    /\ ranges = <<>>
    /\ chunk_size = <<>>
    /\ task = <<>>
    /\ file = <<>>
    /\ failures = {}

Next ==
    \/ download_command
    \/ \E j \in JobIds : run_download_job(j)
    \/ \E j \in JobIds : \E t \in TaskIds(j) : TaskOpen(j, t)
    \/ \E j \in JobIds : \E t \in TaskIds(j) : TaskSeek(j, t)
    \/ \E j \in JobIds : \E t \in TaskIds(j) : TaskDownload(j, t)
    \/ \E j \in JobIds : \E t \in TaskIds(j) : TaskRaise(j, t)
    \/ \E j \in JobIds : \E t \in TaskIds(j) : TaskReturn(j, t)
    \/ \E j \in JobIds : JobObservesFailure(j)
    \/ \E j \in JobIds : JobRaises(j)
    \/ \E j \in JobIds : JobReturns(j)
    \/ CommandObservesFailure
    \/ CommandRaises
    \/ CommandReturns

Spec == Init /\ [][Next]_vars

\* the download's variables while a pure function is checked
NoDownload ==
    /\ blob = [size |-> 0]
    /\ start_method = "fork"
    /\ TRANSFER_CHUNK_SIZE = <<>>
    /\ PROCESS_COUNT = <<>>
    /\ THREAD_COUNT = <<>>
    /\ pc = "done"
    /\ outcome = "none"
    /\ workers = 0
    /\ jobs = <<>>
    /\ jobState = <<>>
    /\ ranges = <<>>
    /\ chunk_size = <<>>
    /\ task = <<>>
    /\ file = <<>>
    /\ failures = {}

(***************************************************************************)
(* Pure-function specifications: Init draws the arguments, the one action  *)
(* performs the call.                                                      *)
(***************************************************************************)
InitRange ==
    /\ call \in [fn : {"subdivide_range"},
                 range_start : 0 .. MaxRangeEnd,
                 range_end : 0 .. MaxRangeEnd,
                 subdivisions : 1 .. MaxSubdivisions]
    /\ call.range_start <= call.range_end
    /\ returned = FALSE
    /\ ret = <<>>
    /\ NoDownload

Call_subdivide_range ==
    /\ call.fn = "subdivide_range"
    /\ ~returned
    /\ returned' = TRUE
    /\ ret' = subdivide_range(call.range_start, call.range_end, call.subdivisions)
    /\ UNCHANGED <<call, globals, download>>

NextRange == Call_subdivide_range

SpecRange == InitRange /\ [][NextRange]_vars

InitJobs ==
    /\ call \in [fn : {"calculate_jobs"},
                 slice_size : 0 .. MaxJobsSliceSize,
                 blob_size : 0 .. MaxJobsBlobSize]
    /\ call.blob_size < MaxJobCount * (call.slice_size + 1)
    /\ returned = FALSE
    /\ ret = <<>>
    /\ NoDownload

Call_calculate_jobs ==
    /\ call.fn = "calculate_jobs"
    /\ ~returned
    /\ returned' = TRUE
    /\ ret' = calculate_jobs("gs", call.slice_size, call.blob_size)
    /\ UNCHANGED <<call, globals, download>>

NextJobs == Call_calculate_jobs

SpecJobs == InitJobs /\ [][NextJobs]_vars

InitSlice ==
    /\ call \in [fn : {"calculate_slice_size"},
                 blob_size : 0 .. MaxSliceBlobSize,
                 jobs : 1 .. MaxSliceJobs,
                 min_override : Optional(0 .. MaxOverride),
                 max_override : Optional(0 .. MaxOverride),
                 multiplier : 1 .. MaxMultiplier]
    /\ returned = FALSE
    /\ ret = 0
    /\ NoDownload

Call_calculate_slice_size ==
    /\ call.fn = "calculate_slice_size"
    /\ ~returned
    /\ returned' = TRUE
    /\ ret' = calculate_slice_size(call.blob_size, call.jobs, call.min_override,
                                   call.max_override, call.multiplier)
    /\ UNCHANGED <<call, globals, download>>

NextSlice == Call_calculate_slice_size

SpecSlice == InitSlice /\ [][NextSlice]_vars

(***************************************************************************)
(* Claims about calculate_jobs, checked under SpecJobs.                    *)
(***************************************************************************)
JobsReturned == call.fn = "calculate_jobs" /\ returned

\* the byte offsets covered by a list of jobs
JobOffsets(jobs_) == UNION {jobs_[i].start .. jobs_[i].end : i \in 1 .. Len(jobs_)}

\* ceil(a / b) for a >= 0, b >= 1
CeilDiv(a, b) == (a + b - 1) \div b

\* C2: for objectSize >= 1 and sliceSize >= 1 the jobs' inclusive ranges have
\* as their union exactly 0 .. objectSize-1: the first job starts at 0, the
\* last ends at objectSize-1, no offset >= objectSize is in a job, and
\* objectSize = 100, sliceSize = 64 gives [0,63] and [64,99].
C2_JobsCoverExactlyTheObject ==
    (JobsReturned /\ call.blob_size >= 1 /\ call.slice_size >= 1) =>
        /\ Len(ret) >= 1
        /\ ret[1].start = 0
        /\ ret[Len(ret)].end = call.blob_size - 1
        /\ JobOffsets(ret) = 0 .. (call.blob_size - 1)
        /\ (call.blob_size = 100 /\ call.slice_size = 64) =>
               /\ Len(ret) = 2
               /\ <<ret[1].start, ret[1].end>> = <<0, 63>>
               /\ <<ret[2].start, ret[2].end>> = <<64, 99>>

\* C3: for objectSize >= 1 and sliceSize >= 1 the number of jobs is
\* ceil(objectSize / sliceSize).
C3_JobCountIsCeiling ==
    (JobsReturned /\ call.blob_size >= 1 /\ call.slice_size >= 1) =>
        Len(ret) = CeilDiv(call.blob_size, call.slice_size)

\* C4: for objectSize >= 0 and sliceSize >= 0 the job list is ordered,
\* disjoint and contiguous: the first job starts at 0, every job has
\* start <= end, and job[i].end + 1 = job[i+1].start for consecutive jobs.
C4_JobsContiguous ==
    JobsReturned =>
        /\ Len(ret) >= 1
        /\ ret[1].start = 0
        /\ \A i \in 1 .. Len(ret) : ret[i].start <= ret[i].end
        /\ \A i \in 1 .. Len(ret) - 1 : ret[i].end + 1 = ret[i + 1].start

\* C4 witness: a call that returned at least three jobs of several bytes
C4_Witness ==
    JobsReturned /\ Len(ret) >= 3 /\ call.slice_size >= 1
        /\ ret[2].end > ret[2].start

\* A call of calculate_jobs that has been made keeps executing: the function
\* takes no lock and waits for nothing, so its step is weakly fair.
FairSpecJobs == SpecJobs /\ WF_vars(NextJobs)

\* C13: for objectSize >= 0 and sliceSize >= 0 calculate_jobs terminates
\* (every call eventually returns) and returns at least one job; for
\* objectSize = 0 it returns exactly one job.
C13_AtLeastOneJob ==
    /\ <>JobsReturned
    /\ [](JobsReturned =>
            /\ Len(ret) >= 1
            /\ call.blob_size = 0 => Len(ret) = 1)

\* C13 witness: the call for an empty object, whose slice size is 0, has
\* returned its one job
C13_Witness ==
    JobsReturned /\ call.blob_size = 0 /\ call.slice_size = 0 /\ Len(ret) = 1

\* C17: for objectSize >= 1 and sliceSize >= 1 every job starts before the
\* object's end (start < objectSize): no job lies entirely past the end.
C17_EveryJobStartsInsideObject ==
    (JobsReturned /\ call.blob_size >= 1 /\ call.slice_size >= 1) =>
        \A i \in 1 .. Len(ret) : ret[i].start < call.blob_size

(***************************************************************************)
(* Claims about calculate_slice_size, checked under SpecSlice.             *)
(***************************************************************************)
SliceReturned == call.fn = "calculate_slice_size" /\ returned

\* the bounds calculate_slice_size applies (lines 183-184)
EffectiveMin == min_slice_size(call.min_override, call.multiplier)
EffectiveMax == max_slice_size(call.max_override, call.multiplier)

RefSliceSize(blob_size, jobs_, min_override, max_override, multiplier) ==
    LET effectiveMin == IF min_override # None THEN min_override[1]
                        ELSE DEFAULT_MINIMUM_DOWNLOAD_SLICE_SIZE * multiplier
        effectiveMax == IF max_override # None THEN max_override[1]
                        ELSE DEFAULT_MAXIMUM_DOWNLOAD_SLICE_SIZE * multiplier
        evenShare == blob_size \div jobs_
    IN  IF blob_size < effectiveMin THEN blob_size
        ELSE IF evenShare < effectiveMin THEN effectiveMin
        ELSE IF evenShare > effectiveMax THEN effectiveMax
        ELSE evenShare

\* C10: calculate_slice_size equals the reference operator for every input.
C10_SliceSizeEqualsReference ==
    SliceReturned =>
        ret = RefSliceSize(call.blob_size, call.jobs, call.min_override,
                           call.max_override, call.multiplier)

(***************************************************************************)
(* Claims about subdivide_range, checked under SpecRange.                  *)
(***************************************************************************)
RangeReturned == call.fn = "subdivide_range" /\ returned

\* the number of bytes of the range subdivided
RangeBytes == call.range_end - call.range_start + 1

\* C6: for start <= end and subdivisions >= 1 the ranges are contiguous and
\* disjoint, the first starts at start, the last ends at end, and
\* subdivide_range(0, 99, 4) = [(0,24),(25,49),(50,74),(75,99)].
C6_RangesContiguous ==
    RangeReturned =>
        /\ Len(ret) >= 1
        /\ ret[1][1] = call.range_start
        /\ ret[Len(ret)][2] = call.range_end
        /\ \A i \in 1 .. Len(ret) : ret[i][1] <= ret[i][2]
        /\ \A i \in 1 .. Len(ret) - 1 : ret[i + 1][1] = ret[i][2] + 1
        /\ (call.range_start = 0 /\ call.range_end = 99 /\ call.subdivisions = 4)
               => ret = << <<0, 24>>, <<25, 49>>, <<50, 74>>, <<75, 99>> >>

\* C6 witness: the call of the scenario has returned its four ranges
C6_Witness ==
    /\ RangeReturned
    /\ call.range_start = 0 /\ call.range_end = 99 /\ call.subdivisions = 4
    /\ Len(ret) = 4

\* C7 as stated: exactly `subdivisions` ranges, fewer only when the range
\* holds fewer bytes than subdivisions.
C7_ExactlySubdivisionsRanges ==
    RangeReturned =>
        \/ Len(ret) = call.subdivisions
        \/ Len(ret) < call.subdivisions /\ RangeBytes < call.subdivisions

\* C7 amended: never more than `subdivisions` ranges, and fewer only when the
\* range holds at most subdivisions * (subdivisions - 1) bytes.
C7_ExactlySubdivisionsRanges_Amended ==
    RangeReturned =>
        \/ Len(ret) = call.subdivisions
        \/ /\ Len(ret) < call.subdivisions
           /\ RangeBytes <= call.subdivisions * (call.subdivisions - 1)

\* C7 witness: fewer ranges than subdivisions for a range that holds at least
\* `subdivisions` bytes
C7_Witness ==
    /\ RangeReturned
    /\ Len(ret) < call.subdivisions
    /\ RangeBytes >= call.subdivisions

(***************************************************************************)
(* Claims about the download, checked under Spec.                          *)
(***************************************************************************)
\* the file holds the object's byte at every offset of lo .. hi
FileHolds(lo, hi) ==
    \A o \in lo .. hi : o < Len(file) /\ file[o + 1] = ObjectByte(o)

C8_AnyFailureFailsCommand ==
    /\ failures # {} => outcome # "success"
    /\ (pc = "done" /\ failures # {}) => outcome \in {"raised", "exit1"}
    /\ (failures # {} /\ ~ENABLED Next) => pc = "done"
    /\ outcome = "success" =>
          /\ jobs # <<>>
          /\ \A j \in JobIds :
                /\ jobState[j] = "succeeded"
                /\ \A t \in TaskIds(j) : task[j][t].state = "done"

\* C8 witness: the command ended in failure after its second job's task
\* failed, its first job having succeeded
C8_Witness ==
    /\ pc = "done"
    /\ outcome = "raised"
    /\ Len(jobs) >= 2
    /\ jobState[1] = "succeeded"
    /\ jobState[2] = "raised"
    /\ \E t \in TaskIds(2) : <<2, t>> \in failures

C12_EveryRangeNonEmpty ==
    RangeReturned => \A i \in 1 .. Len(ret) : ret[i][1] <= ret[i][2]

\* C12 witness: a range of fewer bytes than subdivisions was subdivided
C12_Witness ==
    RangeReturned /\ RangeBytes < call.subdivisions /\ Len(ret) >= 2

\* C18: for start <= end and subdivisions >= 1 subdivide_range terminates (a
\* call that has not returned can return) and never returns more than
\* `subdivisions` ranges.
C18_AtMostSubdivisionsRanges ==
    /\ (call.fn = "subdivide_range" /\ ~returned) => ENABLED Call_subdivide_range
    /\ RangeReturned => Len(ret) <= call.subdivisions

\* C18 witness: a call with several subdivisions returned exactly that many
C18_Witness ==
    RangeReturned /\ call.subdivisions >= 3 /\ Len(ret) = call.subdivisions

\* The sub-ranges handed to inner tasks so far, as <<job, task>> pairs
SubRangeIds == UNION {{<<j, t>> : t \in 1 .. Len(ranges[j])} : j \in JobIds}

\* The file offsets of the sub-range of task t of job j
SubRangeOffsets(j, t) == ranges[j][t][1] .. ranges[j][t][2]

\* C11: across one download every byte range handed to an inner task lies
\* inside [job.start, job.end] of the job that owns it, and the sub-ranges of
\* all jobs together are pairwise disjoint: no file offset belongs to two
\* different tasks, of the same job or of different jobs.
C11_SubRangesInsideJobAndDisjoint ==
    /\ \A id \in SubRangeIds :
          /\ jobs[id[1]].start <= ranges[id[1]][id[2]][1]
          /\ ranges[id[1]][id[2]][1] <= ranges[id[1]][id[2]][2]
          /\ ranges[id[1]][id[2]][2] <= jobs[id[1]].end
    /\ \A a \in SubRangeIds, b \in SubRangeIds :
          a # b => SubRangeOffsets(a[1], a[2]) \cap SubRangeOffsets(b[1], b[2]) = {}

\* C11 witness: two jobs have each been split into two sub-ranges and a task
\* of each has written its bytes
C11_Witness ==
    \E j1 \in JobIds, j2 \in JobIds :
        /\ j1 # j2
        /\ Len(ranges[j1]) >= 2 /\ Len(ranges[j2]) >= 2
        /\ \E t \in TaskIds(j1) : task[j1][t].state = "done"
        /\ \E t \in TaskIds(j2) : task[j2][t].state = "done"

\* The jobs a worker has taken up
JobsRun == {j \in JobIds : jobState[j] \notin {"pending", "cancelled"}}

\* C16: download_command, called with transfer chunk size c and thread count t
\* for an existing object, stores the tunables and reaches the dispatch of the
\* jobs, and every worker that runs a job sets its transport's chunk size to c
\* and splits its slice with subdivisions = t: a worker reads the values the
\* command was configured with.
C16_WorkersUseConfiguredTunables ==
    /\ pc # "start" =>
          /\ TRANSFER_CHUNK_SIZE = <<call.transfer_chunk>>
          /\ THREAD_COUNT = <<call.threads>>
          /\ Len(jobs) >= 1
    /\ \A j \in JobsRun :
          /\ <<j, 0>> \notin failures
          /\ chunk_size[j] = call.transfer_chunk
          /\ ranges[j] = subdivide_range(jobs[j].start, jobs[j].end, call.threads)

\* The lifecycle phase of a job: a job whose worker is unwinding from a failed
\* task is still running, and a job that raised has failed
JobPhase(state) ==
    CASE state = "pending" -> "Pending"
      [] state \in {"running", "unwinding"} -> "Running"
      [] state = "succeeded" -> "Succeeded"
      [] state \in {"failed", "raised"} -> "Failed"
      [] state = "cancelled" -> "Cancelled"

\* The steps of Pending -> Running -> Succeeded or Failed.  A job whose worker
\* fails on its first statement is started and fails within one step.
LifecycleStep(from, to) ==
    \/ from = to
    \/ from = "Pending" /\ to \in {"Running", "Failed"}
    \/ from = "Running" /\ to \in {"Succeeded", "Failed"}

\* a job in Failed makes the overall outcome Failed: the command ends with an
\* uncaught exception or with exit(1)
FailedJobFailsCommand ==
    (pc = "done" /\ \E j \in JobIds : JobPhase(jobState[j]) = "Failed")
        => outcome \in {"raised", "exit1"}

JobsCompleted == {j \in JobIds : jobState[j] \in {"succeeded", "failed", "raised"}}

====
